---- MODULE Spec2Model ----
(***************************************************************************)
(* TrustLayer UI: the two variants of src/App.jsx.                         *)
(*   base-82 variant: App with the memoized demoResult scorer (l. 83-509)  *)
(*   base-90 variant: App with demoScan and the result state (l. 583-764)  *)
(* A URL is a sequence of one-character strings, so that toLowerCase,      *)
(* includes, split, trim and the scheme pattern are computed on the text.  *)
(***************************************************************************)
EXTENDS Integers, Sequences, FiniteSets, TLC

\* ------------------------------------------------------------------------
\* Bounds of the model
\* ------------------------------------------------------------------------
MaxParts == 2      \* a URL under test is made of at most MaxParts fragments
MaxClock == 1      \* the millisecond clock runs from 0 to MaxClock
MaxRuns  == 2      \* how many times the scorer is applied to one URL

\* ------------------------------------------------------------------------
\* JavaScript string primitives used by the scorers
\* ------------------------------------------------------------------------
upperAlpha == <<"A","B","C","D","E","F","G","H","I","J","K","L","M",
                "N","O","P","Q","R","S","T","U","V","W","X","Y","Z">>
lowerAlpha == <<"a","b","c","d","e","f","g","h","i","j","k","l","m",
                "n","o","p","q","r","s","t","u","v","w","x","y","z">>

lowerChar(c) ==
  IF \E i \in 1..26 : upperAlpha[i] = c
  THEN lowerAlpha[CHOOSE i \in 1..26 : upperAlpha[i] = c]
  ELSE c

\* String.prototype.toLowerCase
toLowerCase(s) == [i \in 1..Len(s) |-> lowerChar(s[i])]

\* String.prototype.includes
includes(s, sub) ==
  \E i \in 0..(Len(s) - Len(sub)) : SubSeq(s, i + 1, i + Len(sub)) = sub

\* String.prototype.startsWith (the anchored part of a pattern)
startsWith(s, pre) ==
  /\ Len(pre) <= Len(s)
  /\ SubSeq(s, 1, Len(pre)) = pre

\* String.prototype.indexOf, 1-based; 0 when sub does not occur
indexOf(s, sub) ==
  IF includes(s, sub)
  THEN 1 + CHOOSE i \in 0..(Len(s) - Len(sub)) :
             /\ SubSeq(s, i + 1, i + Len(sub)) = sub
             /\ \A j \in 0..(i - 1) : SubSeq(s, j + 1, j + Len(sub)) # sub
  ELSE 0

\* String.prototype.split with a non-empty separator
RECURSIVE split(_, _)
split(s, sep) ==
  LET k == indexOf(s, sep)
  IN IF k = 0
     THEN <<s>>
     ELSE <<SubSeq(s, 1, k - 1)>> \o split(SubSeq(s, k + Len(sep), Len(s)), sep)

isSpace(c) == c = " "

\* String.prototype.trim
RECURSIVE trim(_)
trim(s) ==
  IF s = <<>> THEN s
  ELSE IF isSpace(s[1]) THEN trim(Tail(s))
  ELSE IF isSpace(s[Len(s)]) THEN trim(SubSeq(s, 1, Len(s) - 1))
  ELSE s

digits == <<"0","1","2","3","4","5","6","7","8","9">>
digit(n) == digits[n + 1]

isoPrefix == <<"1","9","7","0","-","0","1","-","0","1","T","0","0",":","0","0",":">>

\* new Date(ms).toISOString() for a clock below one minute:
\* 1970-01-01T00:00:ss.mmmZ
toISOString(ms) ==
  LET sec == (ms \div 1000) % 60
      mil == ms % 1000
  IN isoPrefix \o <<digit(sec \div 10), digit(sec % 10), ".",
                    digit(mil \div 100), digit((mil \div 10) % 10), digit(mil % 10),
                    "Z">>

Max(a, b) == IF a >= b THEN a ELSE b
Min(a, b) == IF a <= b THEN a ELSE b

\* ------------------------------------------------------------------------
\* Keywords and patterns of the rule tables
\* ------------------------------------------------------------------------
kwLogin == <<"l","o","g","i","n">>
kwBitly == <<"b","i","t",".","l","y">>
kwTinyurl == <<"t","i","n","y","u","r","l">>
kwTco == <<"t",".","c","o">>
kwSecure == <<"s","e","c","u","r","e","-">>
kwVerify == <<"v","e","r","i","f","y">>
kwUpdate == <<"u","p","d","a","t","e">>
kwAt == <<"@">>
kwAccount == <<"a","c","c","o","u","n","t">>
kwPay == <<"p","a","y">>
kwBank == <<"b","a","n","k">>
pfxHttp == <<"h","t","t","p",":","/","/">>
pfxHttps == <<"h","t","t","p","s",":","/","/">>
sepSlashes == <<"/","/">>
sepSlash == <<"/">>
sepDot == <<".">>

\* ------------------------------------------------------------------------
\* Base-82 variant: clamp, scoreToVerdict and the demoResult memo
\* ------------------------------------------------------------------------
clamp(n, min, max) == Max(min, Min(max, n))

\* variant of scoreToVerdict with the Safe threshold exclusive
scoreToVerdictExclusive(score) ==
  IF score > 75 THEN [label |-> "Safe", tone |-> "safe", icon |-> "ShieldCheck"]
  ELSE IF score >= 45 THEN [label |-> "Caution", tone |-> "warn", icon |-> "ShieldAlert"]
  ELSE [label |-> "High Risk", tone |-> "risk", icon |-> "ShieldX"]

scoreToVerdict(score) ==
  IF score >= 75 THEN [label |-> "Safe", tone |-> "safe", icon |-> "ShieldCheck"]
  ELSE IF score >= 45 THEN [label |-> "Caution", tone |-> "warn", icon |-> "ShieldAlert"]
  ELSE [label |-> "High Risk", tone |-> "risk", icon |-> "ShieldX"]

\* the running pair (score, signals) before any rule has been tried
start82 == [score |-> 82, signals |-> <<>>]

ruleLogin82(acc, u) ==
  IF includes(u, kwLogin)
  THEN [score |-> acc.score - 25,
        signals |-> Append(acc.signals,
          [label |-> "Credential lure pattern",
           detail |-> "URL contains login keyword; commonly used in phishing flows.",
           weight |-> 25,
           severity |-> "medium"])]
  ELSE acc

\* variant of ruleShortener82 that charges the weight once per keyword found
ruleShortener82PerKeyword(acc, u) ==
  LET hits == Cardinality({k \in {kwBitly, kwTinyurl, kwTco} : includes(u, k)})
  IN IF hits > 0
     THEN [score |-> acc.score - 30 * hits,
           signals |-> Append(acc.signals,
             [label |-> "Shortened URL",
              detail |-> "Shorteners obscure final destination; higher social engineering risk.",
              weight |-> 30,
              severity |-> "high"])]
     ELSE acc

ruleShortener82(acc, u) ==
  IF includes(u, kwBitly) \/ includes(u, kwTinyurl) \/ includes(u, kwTco)
  THEN [score |-> acc.score - 30,
        signals |-> Append(acc.signals,
          [label |-> "Shortened URL",
           detail |-> "Shorteners obscure final destination; higher social engineering risk.",
           weight |-> 30,
           severity |-> "high"])]
  ELSE acc

\* variant of ruleImpersonation82 with the weight 5 for 15
ruleImpersonation82Light(acc, u) ==
  IF includes(u, kwSecure) \/ includes(u, kwVerify) \/ includes(u, kwUpdate)
  THEN [score |-> acc.score - 5,
        signals |-> Append(acc.signals,
          [label |-> "Impersonation language",
           detail |-> "Security-themed wording may indicate trust manipulation.",
           weight |-> 5,
           severity |-> "medium"])]
  ELSE acc

ruleImpersonation82(acc, u) ==
  IF includes(u, kwSecure) \/ includes(u, kwVerify) \/ includes(u, kwUpdate)
  THEN [score |-> acc.score - 15,
        signals |-> Append(acc.signals,
          [label |-> "Impersonation language",
           detail |-> "Security-themed wording may indicate trust manipulation.",
           weight |-> 15,
           severity |-> "medium"])]
  ELSE acc

\* signals.filter(s => s.severity === sev).length
countSeverity(signals, sev) ==
  Cardinality({i \in 1..Len(signals) : signals[i].severity = sev})

dist(score) ==
  << [name |-> "Benign Indicators", value |-> score],
     [name |-> "Risk Indicators", value |-> 100 - score] >>

\* variant of severityBars whose High bar counts every signal that is not low
severityBarsNotLow(signals) ==
  << [name |-> "High",
      value |-> Cardinality({i \in 1..Len(signals) : signals[i].severity # "low"})],
     [name |-> "Medium", value |-> countSeverity(signals, "medium")],
     [name |-> "Low", value |-> countSeverity(signals, "low")] >>

severityBars(signals) ==
  << [name |-> "High", value |-> countSeverity(signals, "high")],
     [name |-> "Medium", value |-> countSeverity(signals, "medium")],
     [name |-> "Low", value |-> countSeverity(signals, "low")] >>

recommendation82(verdict) ==
  IF verdict.tone = "safe"
  THEN "Proceed normally. If prompted for credentials, verify the domain matches the expected organization."
  ELSE IF verdict.tone = "warn"
  THEN "Proceed with caution. Avoid entering credentials. Validate sender and domain ownership."
  ELSE "Do not proceed. Avoid entering any credentials. Verify via an alternate trusted channel."

demoResult(url) ==
  LET u == toLowerCase(url)
      acc == ruleImpersonation82(ruleShortener82(ruleLogin82(start82, u), u), u)
      score == clamp(acc.score, 0, 100)
      verdict == scoreToVerdict(score)
  IN [score |-> score,
      verdict |-> verdict,
      signals |-> acc.signals,
      recommendation |-> recommendation82(verdict),
      dist |-> dist(score),
      severityBars |-> severityBars(acc.signals)]

\* the list the Signals section renders: the signals, or one placeholder card
placeholder82 ==
  [label |-> "No high-risk signals detected",
   detail |-> "Try a URL with /login or a shortened link to see the explainability panel populate.",
   weight |-> 0,
   severity |-> "low"]

renderedSignals(res) ==
  IF Len(res.signals) # 0 THEN res.signals ELSE <<placeholder82>>

\* ------------------------------------------------------------------------
\* Base-90 variant: demoScan
\* ------------------------------------------------------------------------
start90 == [score |-> 90, signals |-> <<>>]

\* const add = (level, text, delta) => { signals.push(...); score += delta }
add(acc, level, text, delta) ==
  [score |-> acc.score + delta,
   signals |-> Append(acc.signals, [level |-> level, text |-> text])]

\* /^https?:\/\//.test(u)
hasScheme(u) == startsWith(u, pfxHttp) \/ startsWith(u, pfxHttps)

\* u.split("//")[1]?.split("/")[0]?.split(".").length > 3
deepSubdomain(u) ==
  LET pieces == split(u, sepSlashes)
  IN IF Len(pieces) < 2
     THEN FALSE
     ELSE Len(split(split(pieces[2], sepSlash)[1], sepDot)) > 3

ruleScheme90(acc, u) ==
  IF ~hasScheme(u)
  THEN add(acc, "warn", "URL is missing http/https scheme.", -20)
  ELSE acc

\* variant of ruleAt90 that reports the '@' at the caution level
ruleAt90Warn(acc, u) ==
  IF includes(u, kwAt)
  THEN add(acc, "warn", "Contains '@' which can hide the real destination.", -35)
  ELSE acc

ruleAt90(acc, u) ==
  IF includes(u, kwAt)
  THEN add(acc, "danger", "Contains '@' which can hide the real destination.", -35)
  ELSE acc

ruleKeywords90(acc, u) ==
  IF includes(u, kwLogin) \/ includes(u, kwVerify) \/ includes(u, kwAccount)
  THEN add(acc, "warn", "Contains high-risk keywords (login/verify/account).", -15)
  ELSE acc

ruleShortener90(acc, u) ==
  IF includes(u, kwBitly) \/ includes(u, kwTinyurl) \/ includes(u, kwTco)
  THEN add(acc, "warn", "Shortened URL - destination is obscured.", -15)
  ELSE acc

ruleDepth90(acc, u) ==
  IF deepSubdomain(u)
  THEN add(acc, "warn", "Subdomain depth is unusually high.", -10)
  ELSE acc

ruleFinancial90(acc, u) ==
  IF includes(u, kwPay) \/ includes(u, kwBank)
  THEN add(acc, "warn", "Financial keyword detected.", -10)
  ELSE acc

\* variant of clampScan without the lower limit
clampScanNoFloor(score) == Min(100, score)

\* score = Math.max(0, Math.min(100, score))
clampScan(score) == Max(0, Min(100, score))

\* variant of verdict90 with the suspicious limit inclusive
verdict90Inclusive(score) ==
  IF score < 40 THEN "malicious"
  ELSE IF score <= 70 THEN "suspicious"
  ELSE "safe"

\* variant of verdict90 with the first comparison turned round
verdict90Flipped(score) ==
  IF score > 40 THEN "malicious"
  ELSE IF score < 70 THEN "suspicious"
  ELSE "safe"

verdict90(score) ==
  IF score < 40 THEN "malicious"
  ELSE IF score < 70 THEN "suspicious"
  ELSE "safe"

\* variant of recommendation90 that tests the base-82 thresholds
recommendation90OtherTable(score) ==
  IF score < 45
  THEN "Do not proceed. Avoid entering credentials and consider blocking/reporting."
  ELSE IF score < 75
  THEN "Proceed carefully. Verify domain ownership and avoid entering sensitive data."
  ELSE "Proceed with normal caution."

recommendation90(score) ==
  IF score < 40
  THEN "Do not proceed. Avoid entering credentials and consider blocking/reporting."
  ELSE IF score < 70
  THEN "Proceed carefully. Verify domain ownership and avoid entering sensitive data."
  ELSE "Proceed with normal caution."

placeholder90 ==
  [level |-> "ok", text |-> "No obvious high-risk signals detected in this demo check."]

\* variant of withPlaceholder90 that never adds the placeholder
withPlaceholder90Never(signals) == signals

\* if (signals.length === 0) signals.push(placeholder)
withPlaceholder90(signals) ==
  IF Len(signals) = 0 THEN Append(signals, placeholder90) ELSE signals

\* demoScan(url) called when the clock reads t milliseconds
demoScan(url, t) ==
  LET u == toLowerCase(url)
      acc == ruleFinancial90(ruleDepth90(ruleShortener90(ruleKeywords90(
               ruleAt90(ruleScheme90(start90, u), u), u), u), u), u)
      score == clampScan(acc.score)
  IN [url |-> url,
      verdict |-> verdict90(score),
      score |-> score,
      signals |-> withPlaceholder90(acc.signals),
      recommendation |-> recommendation90(score),
      timestamp |-> toISOString(t),
      engine |-> "trustlayer-ui-demo"]

\* ------------------------------------------------------------------------
\* URLs under test: concatenations of at most MaxParts fragments
\* ------------------------------------------------------------------------
Parts ==
  { <<"h","t","t","p",":","/","/">>,
    <<"H","T","T","P","S",":","/","/">>,
    <<"e","x","a","m","p","l","e",".","c","o","m">>,
    <<"a",".","b",".","c",".","d">>,
    <<"b","i","t",".","l","y">>,
    <<"t","i","n","y","u","r","l">>,
    <<"t",".","c","o">>,
    <<"L","o","g","i","n">>,
    <<"v","e","r","i","f","y">>,
    <<"a","c","c","o","u","n","t">>,
    <<"s","e","c","u","r","e","-">>,
    <<"u","p","d","a","t","e">>,
    <<"p","a","y">>,
    <<"b","a","n","k">>,
    <<"@">>,
    <<"/">>,
    <<" ">>,
    <<"u","s","e","r","@","b","i","t",".","l","y">>,
    <<"/","l","o","g","i","n","-","p","a","y">>,
    <<"b","i","t",".","l","y","/","l","o","g","i","n","-","v","e","r","i","f","y">> }

RECURSIVE UrlsOfParts(_)
UrlsOfParts(n) ==
  IF n = 0 THEN {<<>>}
  ELSE {p \o rest : p \in Parts, rest \in UrlsOfParts(n - 1)}

Urls == UNION {UrlsOfParts(n) : n \in 0..MaxParts}

Variants == {"base82", "base90"}

\* ------------------------------------------------------------------------
\* State
\* ------------------------------------------------------------------------
VARIABLES
  app,        \* which variant of App.jsx is the one running
  arg,        \* the URL the scorer is applied to
  now,        \* the clock, in milliseconds
  runs,       \* the ScoreResults the scorer returned for arg, oldest first
  pair,       \* two scores, as the clamp leaves them
  outcomes,   \* the verdict and recommendation computed for each score of pair
  url,        \* useState(""): the text of the input
  loading,    \* useState(false) of the base-82 App
  isScanning, \* useState(false) of the base-90 App
  result,     \* useState(null) of the base-90 App
  error,      \* useState("") of the base-90 App
  inflight,   \* the onScan calls waiting on their timer: the url and cleaned of each
  exception   \* what became of an exception raised in the latest onScan call

vars == <<app, arg, now, runs, pair, outcomes,
          url, loading, isScanning, result, error, inflight, exception>>

scorerVars == <<arg, runs, pair, outcomes>>
uiVars == <<url, loading, isScanning, result, error, inflight, exception>>

\* JavaScript's null: a value with no field of a ScoreResult
null == [null |-> TRUE]

\* the state of a freshly mounted App
uiMounted ==
  /\ url = <<>>
  /\ loading = FALSE
  /\ isScanning = FALSE
  /\ result = null
  /\ error = ""
  /\ inflight = <<>>
  /\ exception = "none"

\* ------------------------------------------------------------------------
\* Scorer: the scorer of the running variant applied to one URL
\* ------------------------------------------------------------------------
InitScorer ==
  /\ app \in Variants
  /\ arg \in Urls
  /\ now = 0
  /\ runs = <<>>
  /\ pair = <<0, 0>>
  /\ outcomes = <<>>
  /\ uiMounted

\* the useMemo callback of the base-82 App runs on arg
Score82 ==
  /\ app = "base82"
  /\ runs = <<>>
  /\ runs' = <<demoResult(arg)>>
  /\ UNCHANGED <<app, arg, now, pair, outcomes, uiVars>>

\* demoScan(arg) is called at the current clock reading
Score90 ==
  /\ app = "base90"
  /\ runs = <<>>
  /\ runs' = <<demoScan(arg, now)>>
  /\ UNCHANGED <<app, arg, now, pair, outcomes, uiVars>>

NextScorer == Score82 \/ Score90

SpecScorer == InitScorer /\ [][NextScorer]_vars

\* ------------------------------------------------------------------------
\* Repeat: the scorer applied to the same URL again, at any later moment
\* ------------------------------------------------------------------------
\* the memo callback runs on arg once more
Rescore82 ==
  /\ app = "base82"
  /\ runs # <<>>
  /\ Len(runs) < MaxRuns
  /\ runs' = Append(runs, demoResult(arg))
  /\ UNCHANGED <<app, arg, now, pair, outcomes, uiVars>>

\* variant of Rescore90 in which the signals array outlives the call, so that a
\* later call starts from the signals of the earlier one
Rescore90SharedSignals ==
  /\ app = "base90"
  /\ runs # <<>>
  /\ Len(runs) < MaxRuns
  /\ runs' = Append(runs,
       [demoScan(arg, now) EXCEPT !.signals = runs[Len(runs)].signals \o @])
  /\ UNCHANGED <<app, arg, now, pair, outcomes, uiVars>>

\* demoScan(arg) is called once more, at the current clock reading
Rescore90 ==
  /\ app = "base90"
  /\ runs # <<>>
  /\ Len(runs) < MaxRuns
  /\ runs' = Append(runs, demoScan(arg, now))
  /\ UNCHANGED <<app, arg, now, pair, outcomes, uiVars>>

\* a millisecond passes between two calls
Tick ==
  /\ now < MaxClock
  /\ Len(runs) < MaxRuns
  /\ now' = now + 1
  /\ UNCHANGED <<app, arg, runs, pair, outcomes, uiVars>>

NextRepeat == Score82 \/ Score90 \/ Rescore82 \/ Rescore90 \/ Tick

SpecRepeat == InitScorer /\ [][NextRepeat]_vars

\* ------------------------------------------------------------------------
\* Verdict: the verdict step of the running variant applied to two scores
\* ------------------------------------------------------------------------
Scores == 0..100

\* lines 123 and 138-143 of the memo, on a clamped score
classify82(score) ==
  LET verdict == scoreToVerdict(score)
  IN [score |-> score, verdict |-> verdict,
      recommendation |-> recommendation82(verdict)]

\* lines 604-613 of demoScan, on a clamped score
classify90(score) ==
  [score |-> score, verdict |-> verdict90(score),
   recommendation |-> recommendation90(score)]

InitVerdict ==
  /\ app \in Variants
  /\ pair \in Scores \X Scores
  /\ outcomes = <<>>
  /\ arg = <<>>
  /\ now = 0
  /\ runs = <<>>
  /\ uiMounted

Classify82 ==
  /\ app = "base82"
  /\ outcomes = <<>>
  /\ outcomes' = <<classify82(pair[1]), classify82(pair[2])>>
  /\ UNCHANGED <<app, arg, now, runs, pair, uiVars>>

Classify90 ==
  /\ app = "base90"
  /\ outcomes = <<>>
  /\ outcomes' = <<classify90(pair[1]), classify90(pair[2])>>
  /\ UNCHANGED <<app, arg, now, runs, pair, uiVars>>

NextVerdict == Classify82 \/ Classify90

SpecVerdict == InitVerdict /\ [][NextVerdict]_vars

\* ------------------------------------------------------------------------
\* The App components: input, Scan button and the timer of onScan
\* ------------------------------------------------------------------------
MaxTyped == 2      \* the input holds at most MaxTyped fragments

Typed ==
  { <<" ">>,
    <<"h","t","t","p",":","/","/">>,
    <<"b","i","t",".","l","y">>,
    <<"L","o","g","i","n","@">> }

RECURSIVE TextsOfTyped(_)
TextsOfTyped(n) ==
  IF n = 0 THEN {<<>>}
  ELSE {p \o rest : p \in Typed, rest \in TextsOfTyped(n - 1)}

Texts == UNION {TextsOfTyped(n) : n \in 0..MaxTyped}

\* const canScan = useMemo(() => url.trim().length > 6, [url])
canScan == Len(trim(url)) > 6

\* variant of scanDisabled that leaves the loading flag out
scanDisabledWithoutFlag ==
  IF app = "base82" THEN FALSE ELSE ~canScan

\* disabled={loading} / disabled={!canScan || isScanning}
scanDisabled ==
  IF app = "base82" THEN loading ELSE (~canScan \/ isScanning)

\* whether demoScan raises on this text: toLowerCase, includes, split and the
\* pattern test are defined on every string
demoScanThrows(text) == FALSE

Init ==
  /\ app \in Variants
  /\ now = 0
  /\ arg = <<>>
  /\ runs = <<>>
  /\ pair = <<0, 0>>
  /\ outcomes = <<>>
  /\ uiMounted

\* variant of SetUrl that also clears the result
SetUrlClearingResult ==
  \E text \in Texts :
    /\ text # url
    /\ url' = text
    /\ result' = null
    /\ UNCHANGED <<app, now, arg, runs, pair, outcomes, loading, isScanning, error,
                   inflight, exception>>

\* onChange={(e) => setUrl(e.target.value)}
SetUrl ==
  \E text \in Texts :
    /\ text # url
    /\ url' = text
    /\ UNCHANGED <<app, now, scorerVars, loading, isScanning, result, error,
                   inflight, exception>>

\* what an onScan call holds across its await: the url of the render it was
\* created in and, in the base-90 App, cleaned = url.trim()
closure == [url |-> url, cleaned |-> trim(url)]

\* base-82 onScan up to its await: setLoading(true), the 550 ms timer is set
OnScan82 ==
  /\ app = "base82"
  /\ ~scanDisabled
  /\ loading' = TRUE
  /\ inflight' = Append(inflight, closure)
  /\ exception' = "none"
  /\ UNCHANGED <<app, now, scorerVars, url, isScanning, result, error>>

\* base-82 onScan after its await: finally setLoading(false)
Resume82 ==
  /\ app = "base82"
  /\ inflight # <<>>
  /\ loading' = FALSE
  /\ inflight' = Tail(inflight)
  /\ UNCHANGED <<app, now, scorerVars, url, isScanning, result, error, exception>>

\* base-90 onScan up to its await: setError(""), setIsScanning(true),
\* setResult(null), cleaned = url.trim(), the 450 ms timer is set
OnScan90 ==
  /\ app = "base90"
  /\ ~scanDisabled
  /\ error' = ""
  /\ isScanning' = TRUE
  /\ result' = null
  /\ inflight' = Append(inflight, closure)
  /\ exception' = "none"
  /\ UNCHANGED <<app, now, scorerVars, url, loading>>

\* variant of Resume90 that scores the text the input holds when the timer fires
Resume90CurrentText ==
  /\ app = "base90"
  /\ inflight # <<>>
  /\ result' = demoScan(trim(url), now)
  /\ isScanning' = FALSE
  /\ inflight' = Tail(inflight)
  /\ UNCHANGED <<app, now, arg, runs, pair, outcomes, url, loading, error, exception>>

\* base-90 onScan after its await: setResult(demoScan(cleaned)), or the catch
\* branch, then finally setIsScanning(false)
Resume90 ==
  /\ app = "base90"
  /\ inflight # <<>>
  /\ LET cleaned == Head(inflight).cleaned
     IN IF demoScanThrows(cleaned)
        THEN /\ error' = "Scan failed. Please try again."
             /\ exception' = "caught"
             /\ UNCHANGED result
        ELSE /\ result' = demoScan(cleaned, now)
             /\ UNCHANGED <<error, exception>>
  /\ isScanning' = FALSE
  /\ inflight' = Tail(inflight)
  /\ UNCHANGED <<app, now, scorerVars, url, loading>>

\* a millisecond passes while the page is open
Clock ==
  /\ now < MaxClock
  /\ now' = now + 1
  /\ UNCHANGED <<app, scorerVars, uiVars>>

Next == SetUrl \/ OnScan82 \/ Resume82 \/ OnScan90 \/ Resume90 \/ Clock

Spec == Init /\ [][Next]_vars

\* ------------------------------------------------------------------------
\* Fault: the App components when the body of onScan's try may raise, as the
\* call of the scoring endpoint planned at line 155 can
\* ------------------------------------------------------------------------
\* the awaited call of the scoring endpoint fails (connection, status, parse)
awaitedCallRaises == TRUE

\* variant of Fail82 without the finally clause
Fail82NoFinally ==
  /\ app = "base82"
  /\ inflight # <<>>
  /\ inflight' = Tail(inflight)
  /\ exception' = "uncaught"
  /\ UNCHANGED <<app, now, arg, runs, pair, outcomes, url, loading, isScanning,
                 result, error>>

\* base-82 onScan when its try body raises: there is no catch clause, finally
\* setLoading(false), and the exception leaves onScan
Fail82 ==
  /\ app = "base82"
  /\ inflight # <<>>
  /\ awaitedCallRaises
  /\ loading' = FALSE
  /\ inflight' = Tail(inflight)
  /\ exception' = "uncaught"
  /\ UNCHANGED <<app, now, scorerVars, url, isScanning, result, error>>

\* variant of Fail90 without the finally clause
Fail90NoFinally ==
  /\ app = "base90"
  /\ inflight # <<>>
  /\ error' = "Scan failed. Please try again."
  /\ exception' = "caught"
  /\ inflight' = Tail(inflight)
  /\ UNCHANGED <<app, now, arg, runs, pair, outcomes, url, loading, isScanning,
                 result>>

\* base-90 onScan when its try body raises: catch setError("Scan failed..."),
\* finally setIsScanning(false)
Fail90 ==
  /\ app = "base90"
  /\ inflight # <<>>
  /\ awaitedCallRaises
  /\ error' = "Scan failed. Please try again."
  /\ exception' = "caught"
  /\ isScanning' = FALSE
  /\ inflight' = Tail(inflight)
  /\ UNCHANGED <<app, now, scorerVars, url, loading, result>>

NextFault ==
  SetUrl \/ OnScan82 \/ Resume82 \/ Fail82 \/ OnScan90 \/ Resume90 \/ Fail90 \/ Clock

SpecFault == Init /\ [][NextFault]_vars

\* the continuation of the oldest pending base-90 onScan runs to its end;
\* under NextFault such a step is a Resume90 or a Fail90 step, and it is
\* enabled exactly when one of them is
Continuation90 ==
  /\ app = "base90"
  /\ inflight # <<>>
  /\ inflight' = Tail(inflight)

\* the timer of a pending onScan fires and its continuation runs to the end
FairFault ==
  /\ SpecFault
  /\ WF_vars(Resume82 \/ Fail82)
  /\ WF_inflight(Continuation90)

\* ------------------------------------------------------------------------
\* Properties
\* ------------------------------------------------------------------------
Ran == Len(runs) > 0
Classified == Len(outcomes) > 0
weightIf(hit, w) == IF hit THEN w ELSE 0

\* C1: whichever scorer ran, the score of every ScoreResult it returned is an
\* integer between 0 and 100.
C1_ScoreInRange ==
  \A i \in 1..Len(runs) : runs[i].score \in 0..100

\* C1 witness: demoScan returned for a URL whose penalties exceed the base 90
C1_Witness ==
  /\ app = "base90"
  /\ Ran
  /\ runs[1].score = 0
  /\ ~hasScheme(toLowerCase(arg))
  /\ includes(toLowerCase(arg), kwAt)
  /\ includes(toLowerCase(arg), kwLogin)
  /\ includes(toLowerCase(arg), kwBitly)
  /\ includes(toLowerCase(arg), kwPay)

\* the rule tables as C2 states them: (test on the lowercased URL, weight)
table82(u) ==
  << <<includes(u, kwLogin), 25>>,
     <<includes(u, kwBitly) \/ includes(u, kwTinyurl) \/ includes(u, kwTco), 30>>,
     <<includes(u, kwSecure) \/ includes(u, kwVerify) \/ includes(u, kwUpdate), 15>> >>

table90(u) ==
  << <<~(startsWith(u, pfxHttp) \/ startsWith(u, pfxHttps)), 20>>,
     <<includes(u, kwAt), 35>>,
     <<includes(u, kwLogin) \/ includes(u, kwVerify) \/ includes(u, kwAccount), 15>>,
     <<includes(u, kwBitly) \/ includes(u, kwTinyurl) \/ includes(u, kwTco), 15>>,
     <<deepSubdomain(u), 10>>,
     <<includes(u, kwPay) \/ includes(u, kwBank), 10>> >>

RECURSIVE matchedWeight(_)
matchedWeight(table) ==
  IF table = <<>> THEN 0
  ELSE weightIf(table[1][1], table[1][2]) + matchedWeight(Tail(table))

matchedCount(table) == Cardinality({i \in 1..Len(table) : table[i][1]})

tableOf(text) ==
  IF app = "base82" THEN table82(toLowerCase(text)) ELSE table90(toLowerCase(text))

baseOf == IF app = "base82" THEN 82 ELSE 90

\* C2: the score is clamp(BASE - sum of the weights of the matching rules, 0, 100)
\* and every matching rule contributed exactly one signal, whatever the number
\* of its keywords that occur in the URL.
C2_ScoreIsBaseMinusWeights ==
  \A i \in 1..Len(runs) :
    LET table == tableOf(arg)
        want == baseOf - matchedWeight(table)
    IN /\ runs[i].score = (IF want < 0 THEN 0 ELSE IF want > 100 THEN 100 ELSE want)
       /\ matchedCount(table) > 0 => Len(runs[i].signals) = matchedCount(table)
       /\ app = "base82" => Len(runs[i].signals) = matchedCount(table)

\* C2 witness: a scored URL in which two keywords of the shortener rule occur
C2_Witness ==
  /\ Ran
  /\ app = "base82"
  /\ includes(toLowerCase(arg), kwBitly)
  /\ includes(toLowerCase(arg), kwTco)
  /\ runs[1].score = 52

\* C3: in the base-82 variant scoreToVerdict is Safe exactly from 75 up, Caution
\* exactly from 45 to 74 and High Risk exactly below 45, for every score.
C3_Verdict82Thresholds ==
  (app = "base82" /\ Classified) =>
    \A i \in 1..2 :
      LET s == pair[i]
          v == outcomes[i].verdict.label
      IN /\ v \in {"Safe", "Caution", "High Risk"}
         /\ (v = "Safe") <=> (s >= 75)
         /\ (v = "Caution") <=> (45 <= s /\ s < 75)
         /\ (v = "High Risk") <=> (s < 45)

\* C3 witness: the two scores on either side of the Safe threshold are classified
C3_Witness ==
  /\ app = "base82"
  /\ Classified
  /\ pair = <<74, 75>>
  /\ outcomes[1].verdict.label = "Caution"
  /\ outcomes[2].verdict.label = "Safe"

\* C4: demoScan's verdict is safe exactly when the clamped score is at least 70,
\* suspicious exactly from 40 to 69 and malicious exactly below 40.
C4_Verdict90Thresholds ==
  app = "base90" =>
    \A i \in 1..Len(runs) :
      LET s == runs[i].score
          v == runs[i].verdict
      IN /\ v \in {"safe", "suspicious", "malicious"}
         /\ (v = "safe") <=> (s >= 70)
         /\ (v = "suspicious") <=> (40 <= s /\ s < 70)
         /\ (v = "malicious") <=> (s < 40)

\* C4 witness: demoScan returned a result whose score is exactly 70
C4_Witness ==
  /\ app = "base90"
  /\ Ran
  /\ runs[1].score = 70
  /\ runs[1].verdict = "safe"

\* the verdict tiers in order: High-Risk < Caution < Safe
tier(outcome) ==
  IF app = "base82"
  THEN (IF outcome.verdict.tone = "risk" THEN 0
        ELSE IF outcome.verdict.tone = "warn" THEN 1 ELSE 2)
  ELSE (IF outcome.verdict = "malicious" THEN 0
        ELSE IF outcome.verdict = "suspicious" THEN 1 ELSE 2)

\* C5: in each variant, of two scores the larger one never gets the lower
\* verdict tier.
C5_VerdictMonotonic ==
  (Classified /\ pair[1] <= pair[2]) => tier(outcomes[1]) <= tier(outcomes[2])

\* C5 witness: two classified scores of the base-90 variant two tiers apart
C5_Witness ==
  /\ app = "base90"
  /\ Classified
  /\ pair[1] < pair[2]
  /\ tier(outcomes[1]) = 0
  /\ tier(outcomes[2]) = 2

\* a ScoreResult of demoScan without its timestamp
withoutTimestamp(res) == [f \in DOMAIN res \ {"timestamp"} |-> res[f]]

noRuleFired == matchedCount(tableOf(arg)) = 0

isSafe(res) ==
  IF app = "base82" THEN res.verdict.label = "Safe" ELSE res.verdict = "safe"

\* a signals list made of exactly one informational signal of benign severity
onlyPlaceholder(signals) ==
  /\ Len(signals) = 1
  /\ IF app = "base82"
     THEN signals[1].severity = "low" /\ signals[1].weight = 0
     ELSE signals[1].level = "ok"

\* C7 as stated: when no rule fires the ScoreResult has score BASE, verdict Safe
\* and a signals list that is exactly one benign placeholder, which is there
\* exactly when no rule fired.
C7_PlaceholderInResult ==
  \A i \in 1..Len(runs) :
    /\ noRuleFired => (runs[i].score = baseOf /\ isSafe(runs[i]))
    /\ noRuleFired <=> onlyPlaceholder(runs[i].signals)

\* C7 amended: when no rule fires the score is BASE and the verdict Safe; the
\* signals of demoScan's result are then exactly one benign placeholder, while
\* the signals of the base-82 result are empty and the placeholder is in the
\* rendered list only; in both the placeholder is there exactly when no rule fired.
C7_PlaceholderWhenNoRule ==
  \A i \in 1..Len(runs) :
    /\ noRuleFired => (runs[i].score = baseOf /\ isSafe(runs[i]))
    /\ app = "base90" => (noRuleFired <=> onlyPlaceholder(runs[i].signals))
    /\ app = "base82" =>
         /\ noRuleFired <=> runs[i].signals = <<>>
         /\ noRuleFired <=> onlyPlaceholder(renderedSignals(runs[i]))
         /\ ~noRuleFired => renderedSignals(runs[i]) = runs[i].signals

\* C7 witness: the base-82 scorer ran on a URL with a scheme and no keyword
C7_Witness ==
  /\ app = "base82"
  /\ Ran
  /\ noRuleFired
  /\ hasScheme(toLowerCase(arg))
  /\ runs[1].score = 82

hasHighest(res) ==
  IF app = "base82"
  THEN \E k \in 1..Len(res.signals) : res.signals[k].severity = "high"
  ELSE \E k \in 1..Len(res.signals) : res.signals[k].level = "danger"

\* C8 as stated: a URL containing '@' always gets a signal of the highest
\* severity.
C8_AtSignAlwaysHighest ==
  \A i \in 1..Len(runs) : includes(arg, kwAt) => hasHighest(runs[i])

\* C8 amended: demoScan gives every URL containing '@' a danger signal; the
\* base-82 scorer has no '@' rule and gives a high signal exactly to the URLs
\* matching its shortener rule.
C8_AtSignHighestInDemoScan ==
  \A i \in 1..Len(runs) :
    /\ app = "base90" => (includes(arg, kwAt) => hasHighest(runs[i]))
    /\ app = "base82" => (hasHighest(runs[i]) <=> table82(toLowerCase(arg))[2][1])

\* C8 witness: demoScan ran on a URL with '@' and other flagged content
C8_Witness ==
  /\ app = "base90"
  /\ Ran
  /\ includes(arg, kwAt)
  /\ includes(toLowerCase(arg), kwLogin)
  /\ hasHighest(runs[1])

\* the advisory strings of each variant
advisories ==
  IF app = "base82"
  THEN {"Proceed normally. If prompted for credentials, verify the domain matches the expected organization.",
        "Proceed with caution. Avoid entering credentials. Validate sender and domain ownership.",
        "Do not proceed. Avoid entering any credentials. Verify via an alternate trusted channel."}
  ELSE {"Proceed with normal caution.",
        "Proceed carefully. Verify domain ownership and avoid entering sensitive data.",
        "Do not proceed. Avoid entering credentials and consider blocking/reporting."}

\* C9: the recommendation is one of the variant's three advisory strings, and
\* two results have the same recommendation exactly when they have the same
\* verdict.
C9_RecommendationByVerdict ==
  Classified =>
    /\ Cardinality(advisories) = 3
    /\ \A i \in 1..2 : outcomes[i].recommendation \in advisories
    /\ (outcomes[1].verdict = outcomes[2].verdict)
         <=> (outcomes[1].recommendation = outcomes[2].recommendation)

\* C9 witness: the scores 39 and 40 of the base-90 variant are classified
C9_Witness ==
  /\ app = "base90"
  /\ Classified
  /\ pair = <<39, 40>>
  /\ outcomes[1].verdict # outcomes[2].verdict
  /\ outcomes[1].recommendation # outcomes[2].recommendation

\* C10: in the base-82 result the split is (score, 100 - score), both parts in
\* 0..100 and summing to 100, and the High, Medium and Low counts count every
\* signal once, so that they sum to the number of signals.
C10_AggregatesAreProjections ==
  app = "base82" =>
    \A i \in 1..Len(runs) :
      LET r == runs[i]
          count(sev) == Cardinality({k \in 1..Len(r.signals) : r.signals[k].severity = sev})
      IN /\ Len(r.dist) = 2
         /\ r.dist[1].value = r.score
         /\ r.dist[2].value = 100 - r.score
         /\ r.dist[1].value \in 0..100
         /\ r.dist[2].value \in 0..100
         /\ r.dist[1].value + r.dist[2].value = 100
         /\ \A k \in 1..Len(r.signals) : r.signals[k].severity \in {"high", "medium", "low"}
         /\ <<r.severityBars[1].name, r.severityBars[2].name, r.severityBars[3].name>>
              = <<"High", "Medium", "Low">>
         /\ r.severityBars[1].value = count("high")
         /\ r.severityBars[2].value = count("medium")
         /\ r.severityBars[3].value = count("low")
         /\ r.severityBars[1].value + r.severityBars[2].value + r.severityBars[3].value
              = Len(r.signals)

\* C10 witness: the base-82 scorer ran on a URL on which all three rules fire
C10_Witness ==
  /\ app = "base82"
  /\ Ran
  /\ Len(runs[1].signals) = 3
  /\ runs[1].dist[1].value = 12
  /\ runs[1].dist[2].value = 88
  /\ runs[1].severityBars[2].value = 2

\* the loading flag of the running variant
scanning == IF app = "base82" THEN loading ELSE isScanning

\* C11: at most one onScan call is in flight, and while one is, the loading
\* flag it set is true, whatever the clicks, edits and timer completions.
C11_OneScanInFlight ==
  /\ Len(inflight) <= 1
  /\ inflight # <<>> <=> scanning

\* C11 witness: a base-90 scan is in flight, the input was edited since it
\* started, and the text would be long enough to scan
C11_Witness ==
  /\ app = "base90"
  /\ Len(inflight) = 1
  /\ isScanning
  /\ canScan
  /\ url # inflight[1].url

\* C12: whenever the trimmed text of the input is empty, onScan cannot be
\* started, in either variant.
C12_NoScanOnEmptyInput ==
  trim(url) = <<>> => ~(ENABLED OnScan82 \/ ENABLED OnScan90)

\* C17: in the base-82 variant the score is 82 minus the matched weights, lies
\* in 12..82 without the clamp changing it, and the verdict is Safe exactly
\* when the signals list is empty.
C17_Base82Range ==
  app = "base82" =>
    \A i \in 1..Len(runs) :
      /\ runs[i].score \in 12..82
      /\ runs[i].score = 82 - matchedWeight(table82(toLowerCase(arg)))
      /\ (runs[i].verdict.label = "Safe") <=> (runs[i].signals = <<>>)

\* C17 witness: the base-82 scorer ran on a URL with the lowest score, and on it
\* the verdict is High Risk
C17_Witness ==
  /\ app = "base82"
  /\ Ran
  /\ runs[1].score = 12
  /\ runs[1].verdict.label = "High Risk"

displayed == IF app = "base82" THEN demoResult(url) ELSE result

started == Len(inflight') > Len(inflight)
completed == Len(inflight') < Len(inflight)

\* C14 as stated: the displayed result is discarded when a scan starts, replaced
\* by the scan's ScoreResult when it completes, and changed by no other step.
C14_DisplayedChangesOnlyByScans ==
  [][ /\ started => displayed' = null
      /\ completed => displayed' # null
      /\ (~started /\ ~completed) => displayed' = displayed ]_vars

\* C14 amended: in the base-90 App result becomes null when a scan starts,
\* demoScan of the scan's cleaned text when it completes, and no other step
\* changes it; in the base-82 App the displayed result is demoResult of the
\* input text, which scans leave alone and every edit recomputes.
C14_ResultChangesOnlyByScans ==
  [][ IF app = "base90"
      THEN /\ started => result' = null
           /\ completed => result' = demoScan(Head(inflight).cleaned, now)
           /\ (~started /\ ~completed) => result' = result
      ELSE /\ (started \/ completed) => url' = url
           /\ result' = null ]_vars

\* C14 witness: a base-90 result is displayed and the input has been edited to
\* another scannable text
C14_Witness ==
  /\ app = "base90"
  /\ result # null
  /\ inflight = <<>>
  /\ canScan
  /\ trim(url) # result.url

\* C15: a scan that has started eventually ends with the loading flag false,
\* whether its try body returned or raised.
C15_ScanEventuallyFinishes == scanning ~> ~scanning

\* C15 witness: a base-82 scan raised and loading is false again
C15_Witness ==
  /\ app = "base82"
  /\ exception = "uncaught"
  /\ ~loading
  /\ inflight = <<>>

\* C16: in the base-90 App the result a completing scan publishes is demoScan
\* of the trimmed text the input held when that scan started, longer than 6,
\* whatever the input holds when the timer fires.
C16_ResultOfTextAtStart ==
  [][ (app = "base90" /\ completed) =>
        LET text == trim(Head(inflight).url)
        IN /\ result' # null
           /\ result'.url = text
           /\ Len(text) > 6
           /\ result' = demoScan(text, now) ]_vars

\* C16 witness: a base-90 result is displayed while the input holds a text too
\* short to scan
C16_Witness ==
  /\ app = "base90"
  /\ result # null
  /\ ~canScan
  /\ result.url # trim(url)

====
